---- MODULE Spec2Model ----
(***************************************************************************)
(* LinearCommandManager (commands.ts): a command registry, an undo stack   *)
(* and a redo stack of done commands over an externally owned model.       *)
(* The registry is the paint registry of commands.test.ts, extended by one *)
(* handler ("probe") whose execute answers with the CommandExecutionResult *)
(* carried by its instruction, so that every shape of the result type      *)
(* (Failure, hadEffect false / true / omitted) reaches the manager.        *)
(***************************************************************************)
EXTENDS Integers, Sequences, FiniteSets, TLC

VARIABLES model, undoStack, redoStack, heap, lastOp, model0, run, cycle, lifo,
          trace, pruned, commandTypeRegistry, counts, manager2

vars == <<model, undoStack, redoStack, heap, lastOp, model0, run, cycle, lifo,
          trace, pruned, commandTypeRegistry, counts, manager2>>

(* ---------------------------- bounds ----------------------------------- *)

\* executeCommand is offered while the undo stack holds fewer entries
MaxHistory == 3

\* executeCommand is offered while fewer Done Commands have been created
MaxCommands == 3

\* undo() calls that returned true are counted up to this number
MaxCount == 3

(* ------------------------- JavaScript values --------------------------- *)

\* the value `undefined` (result payload of the void handlers)
undefined == [type |-> "undefined"]

Min(a, b) == IF a < b THEN a ELSE b

\* Array.prototype.splice(start, deleteCount, ...items), 0 <= start
Splice(arr, start, deleteCount, items) ==
  LET from == Min(start, Len(arr))
      del  == Min(deleteCount, Len(arr) - from)
  IN  SubSeq(arr, 1, from) \o items \o SubSeq(arr, from + del + 1, Len(arr))

\* Array.prototype.push
Push(arr, x) == Append(arr, x)

\* Array.prototype.pop: the array without its last element (unchanged if empty)
PopRest(arr) == IF arr = <<>> THEN arr ELSE SubSeq(arr, 1, Len(arr) - 1)

(* ------------------------------ inputs --------------------------------- *)

rect1 == [x |-> 100, y |-> 100, width |-> 50, height |-> 50]
rect2 == [x |-> 200, y |-> 200, width |-> 30, height |-> 30]
circle1 == [x |-> 75, y |-> 75, radius |-> 10]

Rectangles == {rect1, rect2}
Circles == {circle1}

\* PaintModel (color is never written by any handler)
PaintModel(rs, cs) == [color |-> "black", rectangles |-> rs, circles |-> cs]

InitialModels == {PaintModel(<<>>, <<>>), PaintModel(<<rect2>>, <<>>)}

\* the shapes of CommandExecutionResult<void>
CommandExecutionResult ==
  { [success |-> TRUE, result |-> undefined],
    [success |-> TRUE, result |-> undefined, hadEffect |-> TRUE],
    [success |-> TRUE, result |-> undefined, hadEffect |-> FALSE],
    [success |-> FALSE, errorMessage |-> "rejected"] }

CommandTypes == {"addRectangle", "addRectangleWithResult", "addCircle", "probe"}

InstructionOf(commandType) ==
  CASE commandType = "addRectangle" -> {[rectangleToAdd |-> r] : r \in Rectangles}
    [] commandType = "addRectangleWithResult" -> {[rectangleToAdd |-> r] : r \in Rectangles}
    [] commandType = "addCircle" -> {[circleToAdd |-> c] : c \in Circles}
    [] commandType = "probe" -> {[respond |-> res] : res \in CommandExecutionResult}

(* ----------------------------- handlers -------------------------------- *)
(* execute yields the mutated model and the result; undo and redo yield    *)
(* the mutated model.                                                      *)

addRectangleExecute(m, instruction) ==
  [model |-> [m EXCEPT !.rectangles = Push(@, instruction.rectangleToAdd)],
   result |-> [success |-> TRUE, result |-> undefined]]

addRectangleRedo(m, instruction, executionResult) ==
  [m EXCEPT !.rectangles = Push(@, instruction.rectangleToAdd)]

addRectangleUndo(m, instruction, executionResult) ==
  [m EXCEPT !.rectangles = PopRest(@)]

addRectangleWithResultExecute(m, instruction) ==
  LET pushed == Push(m.rectangles, instruction.rectangleToAdd)
  IN  [model |-> [m EXCEPT !.rectangles = pushed],
       result |-> [success |-> TRUE, result |-> [addedId |-> Len(pushed) - 1]]]

addRectangleWithResultUndo(m, instruction, executionResult) ==
  [m EXCEPT !.rectangles = Splice(@, executionResult.addedId, 1, <<>>)]

\* variant: redo puts the rectangle in front instead of at addedId
addRectangleWithResultRedo_front(m, instruction, executionResult) ==
  [m EXCEPT !.rectangles = Splice(@, 0, 0, <<instruction.rectangleToAdd>>)]

addRectangleWithResultRedo(m, instruction, executionResult) ==
  [m EXCEPT !.rectangles =
     Splice(@, executionResult.addedId, 0, <<instruction.rectangleToAdd>>)]

addCircleExecute(m, instruction) ==
  [model |-> [m EXCEPT !.circles = Push(@, instruction.circleToAdd)],
   result |-> [success |-> TRUE, result |-> undefined]]

addCircleUndo(m, instruction, executionResult) ==
  [m EXCEPT !.circles = PopRest(@)]

addCircleRedo(m, instruction, executionResult) ==
  [m EXCEPT !.circles = Push(@, instruction.circleToAdd)]

\* what calling a function on undefined, or calling undefined, throws
TypeError == [thrown |-> "TypeError"]

\* what a handler function throws
HandlerError == [thrown |-> "Error"]

\* a handler function ended by throwing
Threw(outcome) == "thrown" \in DOMAIN outcome

\* the instruction tells the probe handler to fail in its function fn
Fault(instruction, fn) == "fault" \in DOMAIN instruction /\ instruction.fault = fn

\* a handler that leaves the model alone and answers as instructed; its
\* instruction may name one of its functions as throwing ("execute", "undo",
\* "redo") or its redo as missing ("noRedo", a handler of execute and undo
\* only, on which calling redo is calling undefined)
probeExecute(m, instruction) ==
  IF Fault(instruction, "execute")
    THEN [model |-> m, thrown |-> HandlerError.thrown]
    ELSE [model |-> m, result |-> instruction.respond]

probeUndo(m, instruction, executionResult) ==
  IF Fault(instruction, "undo")
    THEN [model |-> m, thrown |-> HandlerError.thrown]
    ELSE m

probeRedo(m, instruction, executionResult) ==
  IF Fault(instruction, "redo")
    THEN [model |-> m, thrown |-> HandlerError.thrown]
  ELSE IF Fault(instruction, "noRedo")
    THEN [model |-> m, thrown |-> TypeError.thrown]
  ELSE m

\* commandTypeRegistry[commandType].execute(model, instruction)
RegistryExecute(commandType, m, instruction) ==
  CASE commandType = "addRectangle" -> addRectangleExecute(m, instruction)
    [] commandType = "addRectangleWithResult" -> addRectangleWithResultExecute(m, instruction)
    [] commandType = "addCircle" -> addCircleExecute(m, instruction)
    [] commandType = "probe" -> probeExecute(m, instruction)

\* commandTypeRegistry[commandType].undo({model, instruction, executionResult})
RegistryUndo(commandType, m, instruction, executionResult) ==
  CASE commandType = "addRectangle" -> addRectangleUndo(m, instruction, executionResult)
    [] commandType = "addRectangleWithResult" -> addRectangleWithResultUndo(m, instruction, executionResult)
    [] commandType = "addCircle" -> addCircleUndo(m, instruction, executionResult)
    [] commandType = "probe" -> probeUndo(m, instruction, executionResult)

\* commandTypeRegistry[commandType].redo({model, instruction, executionResult})
RegistryRedo(commandType, m, instruction, executionResult) ==
  CASE commandType = "addRectangle" -> addRectangleRedo(m, instruction, executionResult)
    [] commandType = "addRectangleWithResult" -> addRectangleWithResultRedo(m, instruction, executionResult)
    [] commandType = "addCircle" -> addCircleRedo(m, instruction, executionResult)
    [] commandType = "probe" -> probeRedo(m, instruction, executionResult)

(* ------------------------ LinearCommandManager ------------------------- *)
(* Each method yields the model and the two stacks as it leaves them, its  *)
(* return value and the handler functions it invoked, in order.            *)

\* names that are no key of the registry: the lookup
\* commandTypeRegistry[commandType] gives undefined for the first and a
\* member inherited from Object.prototype for the second
UnknownKinds == {"removeRectangle", "toString"}

\* the call ends by throwing, with the model and the stacks as they are
Thrown(m, us, rs) ==
  [model |-> m, undoStack |-> us, redoStack |-> rs, ret |-> TypeError,
   calls |-> <<>>]

\* the registry of the tests, each kind with the name of its handler, and
\* the probe handler
paintCommandTypeRegistry ==
  [addRectangle |-> "addRectangleCommandHandler",
   addRectangleWithResult |-> "addRectangleCommandHandlerWithResult",
   addCircle |-> "addCircleCommandHandler",
   probe |-> "probeCommandHandler"]

\* variant: the constructor keeps the handlers of the tests only
constructor_withoutProbe(registry) ==
  [k \in DOMAIN registry \ {"probe"} |-> registry[k]]

\* constructor: this.commandTypeRegistry = commandTypeRegistry
constructor(registry) == registry

HandlerCall(commandType, fn, args) == [commandType |-> commandType, fn |-> fn, args |-> args]

\* variant: `if (result.hadEffect)`, an omitted flag counts as no effect
HadEffect_truthy(result) ==
  "hadEffect" \in DOMAIN result /\ result.hadEffect

\* result.hadEffect || result.hadEffect === undefined
HadEffect(result) ==
  IF "hadEffect" \in DOMAIN result THEN result.hadEffect ELSE TRUE

\* variant: the redo stack is left as it is
clearRedoStack_noop(rs) == rs

\* variant: splice(0, length - 1), the newest redo entry survives
clearRedoStack_keepLast(rs) == IF rs = <<>> THEN rs ELSE <<rs[Len(rs)]>>

\* variant: splice(1, length), the oldest redo entry survives
clearRedoStack_keepFirst(rs) == Splice(rs, 1, Len(rs), <<>>)

\* this.redoStack.splice(0, this.redoStack.length)
clearRedoStack(rs) == Splice(rs, 0, Len(rs), <<>>)

DoneCommand(commandType, instruction, executionResult) ==
  [commandType |-> commandType, instruction |-> instruction,
   executionResult |-> executionResult]

\* the object a literal creates: its fields, held under the reference ref
NewObject(ref, fields) ==
  [ref |-> ref, commandType |-> fields.commandType,
   instruction |-> fields.instruction, executionResult |-> fields.executionResult]

\* variant: the redo stack is cleared before the result is looked at
executeCommand_clearFirst(commandType, instruction, m, us, rs, ref) ==
  IF commandType \notin CommandTypes THEN Thrown(m, us, rs) ELSE
  LET exec   == RegistryExecute(commandType, m, instruction)
      result == exec.result
      calls  == <<HandlerCall(commandType, "execute",
                              [model |-> m, instruction |-> instruction])>>
  IN  IF ~result.success
        THEN [model |-> exec.model, undoStack |-> us, redoStack |-> clearRedoStack(rs),
              ret |-> result, calls |-> calls]
      ELSE IF HadEffect(result)
        THEN [model |-> exec.model,
              undoStack |-> Push(us, NewObject(ref, DoneCommand(commandType, instruction, result.result))),
              redoStack |-> clearRedoStack(rs),
              ret |-> result, calls |-> calls]
      ELSE [model |-> exec.model, undoStack |-> us, redoStack |-> clearRedoStack(rs),
            ret |-> result, calls |-> calls]

\* variant: every successful command is recorded, hadEffect is not looked at
executeCommand_ignoresHadEffect(commandType, instruction, m, us, rs, ref) ==
  IF commandType \notin CommandTypes THEN Thrown(m, us, rs) ELSE
  LET exec   == RegistryExecute(commandType, m, instruction)
      result == exec.result
      calls  == <<HandlerCall(commandType, "execute",
                              [model |-> m, instruction |-> instruction])>>
  IN  IF ~result.success
        THEN [model |-> exec.model, undoStack |-> us, redoStack |-> rs,
              ret |-> result, calls |-> calls]
      ELSE [model |-> exec.model,
            undoStack |-> Push(us, NewObject(ref, DoneCommand(commandType, instruction, result.result))),
            redoStack |-> clearRedoStack(rs),
            ret |-> result, calls |-> calls]

\* variant: a Failure is recorded like a Success
executeCommand_recordsFailure(commandType, instruction, m, us, rs, ref) ==
  IF commandType \notin CommandTypes THEN Thrown(m, us, rs) ELSE
  LET exec   == RegistryExecute(commandType, m, instruction)
      result == exec.result
      calls  == <<HandlerCall(commandType, "execute",
                              [model |-> m, instruction |-> instruction])>>
  IN  IF ~result.success
        THEN [model |-> exec.model,
              undoStack |-> Push(us, NewObject(ref, DoneCommand(commandType, instruction, undefined))),
              redoStack |-> clearRedoStack(rs),
              ret |-> result, calls |-> calls]
      ELSE IF HadEffect(result)
        THEN [model |-> exec.model,
              undoStack |-> Push(us, NewObject(ref, DoneCommand(commandType, instruction, result.result))),
              redoStack |-> clearRedoStack(rs),
              ret |-> result, calls |-> calls]
      ELSE [model |-> exec.model, undoStack |-> us, redoStack |-> rs,
            ret |-> result, calls |-> calls]

\* variant: the new Done Command is pushed on the redo stack as well
executeCommand_pushesBoth(commandType, instruction, m, us, rs, ref) ==
  IF commandType \notin CommandTypes THEN Thrown(m, us, rs) ELSE
  LET exec   == RegistryExecute(commandType, m, instruction)
      result == exec.result
      calls  == <<HandlerCall(commandType, "execute",
                              [model |-> m, instruction |-> instruction])>>
      done   == NewObject(ref, DoneCommand(commandType, instruction, result.result))
  IN  IF ~result.success
        THEN [model |-> exec.model, undoStack |-> us, redoStack |-> rs,
              ret |-> result, calls |-> calls]
      ELSE IF HadEffect(result)
        THEN [model |-> exec.model,
              undoStack |-> Push(us, done),
              redoStack |-> Push(clearRedoStack(rs), done),
              ret |-> result, calls |-> calls]
      ELSE [model |-> exec.model, undoStack |-> us, redoStack |-> rs,
            ret |-> result, calls |-> calls]

\* variant: an effectful execution leaves the redo stack as it is
executeCommand_keepsRedo(commandType, instruction, m, us, rs, ref) ==
  IF commandType \notin CommandTypes THEN Thrown(m, us, rs) ELSE
  LET exec   == RegistryExecute(commandType, m, instruction)
      result == exec.result
      calls  == <<HandlerCall(commandType, "execute",
                              [model |-> m, instruction |-> instruction])>>
  IN  IF ~result.success
        THEN [model |-> exec.model, undoStack |-> us, redoStack |-> rs,
              ret |-> result, calls |-> calls]
      ELSE IF HadEffect(result)
        THEN [model |-> exec.model,
              undoStack |-> Push(us, NewObject(ref, DoneCommand(commandType, instruction, result.result))),
              redoStack |-> rs,
              ret |-> result, calls |-> calls]
      ELSE [model |-> exec.model, undoStack |-> us, redoStack |-> rs,
            ret |-> result, calls |-> calls]

\* variant: an unknown kind is answered with a Failure
executeCommand_unknownIsFailure(commandType, instruction, m, us, rs, ref) ==
  IF commandType \notin CommandTypes
    THEN [model |-> m, undoStack |-> us, redoStack |-> rs,
          ret |-> [success |-> FALSE, errorMessage |-> "unknown command"],
          calls |-> <<>>]
  ELSE
  LET exec   == RegistryExecute(commandType, m, instruction)
      result == exec.result
      calls  == <<HandlerCall(commandType, "execute",
                              [model |-> m, instruction |-> instruction])>>
  IN  IF ~result.success
        THEN [model |-> exec.model, undoStack |-> us, redoStack |-> rs,
              ret |-> result, calls |-> calls]
      ELSE IF HadEffect(result)
        THEN [model |-> exec.model,
              undoStack |-> Push(us, NewObject(ref, DoneCommand(commandType, instruction, result.result))),
              redoStack |-> clearRedoStack(rs),
              ret |-> result, calls |-> calls]
      ELSE [model |-> exec.model, undoStack |-> us, redoStack |-> rs,
            ret |-> result, calls |-> calls]

\* variant: the handler's execute is invoked a second time on the model the
\* first invocation left
executeCommand_executesTwice(commandType, instruction, m, us, rs, ref) ==
  IF commandType \notin CommandTypes THEN Thrown(m, us, rs) ELSE
  LET first  == RegistryExecute(commandType, m, instruction)
      exec   == RegistryExecute(commandType, first.model, instruction)
      result == exec.result
      calls  == <<HandlerCall(commandType, "execute",
                              [model |-> m, instruction |-> instruction]),
                  HandlerCall(commandType, "execute",
                              [model |-> first.model, instruction |-> instruction])>>
  IN  IF ~result.success
        THEN [model |-> exec.model, undoStack |-> us, redoStack |-> rs,
              ret |-> result, calls |-> calls]
      ELSE IF HadEffect(result)
        THEN [model |-> exec.model,
              undoStack |-> Push(us, NewObject(ref, DoneCommand(commandType, instruction, result.result))),
              redoStack |-> clearRedoStack(rs),
              ret |-> result, calls |-> calls]
      ELSE [model |-> exec.model, undoStack |-> us, redoStack |-> rs,
            ret |-> result, calls |-> calls]

\* variant: prepares the history (clears the redo stack) before the handler runs
executeCommand_clearsBeforeExecute(commandType, instruction, m, us, rs, ref) ==
  IF commandType \notin CommandTypes THEN Thrown(m, us, rs) ELSE
  LET exec   == RegistryExecute(commandType, m, instruction)
      result == exec.result
      calls  == <<HandlerCall(commandType, "execute",
                              [model |-> m, instruction |-> instruction])>>
  IN  IF Threw(exec)
        THEN [model |-> exec.model, undoStack |-> us,
              redoStack |-> clearRedoStack(rs),
              ret |-> [thrown |-> exec.thrown], calls |-> calls]
      ELSE IF result.success /\ HadEffect(result)
        THEN [model |-> exec.model,
              undoStack |-> Push(us, NewObject(ref, DoneCommand(commandType,
                                                 instruction, result.result))),
              redoStack |-> clearRedoStack(rs),
              ret |-> result, calls |-> calls]
      ELSE [model |-> exec.model, undoStack |-> us, redoStack |-> rs,
            ret |-> result, calls |-> calls]

executeCommand(commandType, instruction, m, us, rs, ref) ==
  IF commandType \notin CommandTypes THEN Thrown(m, us, rs) ELSE
  LET exec   == RegistryExecute(commandType, m, instruction)
      result == exec.result
      calls  == <<HandlerCall(commandType, "execute",
                              [model |-> m, instruction |-> instruction])>>
  IN  IF Threw(exec)
        THEN [model |-> exec.model, undoStack |-> us, redoStack |-> rs,
              ret |-> [thrown |-> exec.thrown], calls |-> calls]
      ELSE IF ~result.success
        THEN [model |-> exec.model, undoStack |-> us, redoStack |-> rs,
              ret |-> result, calls |-> calls]
      ELSE IF HadEffect(result)
        THEN [model |-> exec.model,
              undoStack |-> Push(us, NewObject(ref, DoneCommand(commandType, instruction, result.result))),
              redoStack |-> clearRedoStack(rs),
              ret |-> result, calls |-> calls]
      ELSE [model |-> exec.model, undoStack |-> us, redoStack |-> rs,
            ret |-> result, calls |-> calls]

\* variant: the closure calls the handler itself and records nothing
commands_noHistory(commandType, instruction, m, us, rs, ref) ==
  [executeCommand(commandType, instruction, m, us, rs, ref)
     EXCEPT !.undoStack = us, !.redoStack = rs]

\* a function value that, applied to (instruction, model), runs
\* executeCommand(commandType, instruction, model)
Closure(commandType) == [type |-> "function", commandType |-> commandType]

\* the get trap of the Proxy: whatever the property name, it answers a new
\* closure over that name; the registry is not consulted
commandsGet(name) == Closure(name)

\* the function the Proxy's get trap answers for the property commandType,
\* applied to (instruction, m)
commands(commandType, instruction, m, us, rs, ref) ==
  executeCommand(commandsGet(commandType).commandType, instruction, m, us, rs, ref)

\* variant: the command moves to the redo stack but its handler is not invoked
undo_skipHandler(m, us, rs) ==
  IF us = <<>>
    THEN [model |-> m, undoStack |-> us, redoStack |-> rs,
          ret |-> FALSE, calls |-> <<>>]
  ELSE [model |-> m, undoStack |-> PopRest(us),
        redoStack |-> Push(rs, us[Len(us)]), ret |-> TRUE, calls |-> <<>>]

\* variant: an empty undo stack is reported as a command undone
undo_alwaysTrue(m, us, rs) ==
  IF us = <<>>
    THEN [model |-> m, undoStack |-> us, redoStack |-> rs,
          ret |-> TRUE, calls |-> <<>>]
  ELSE LET command == us[Len(us)]
       IN  [model |-> RegistryUndo(command.commandType, m, command.instruction,
                                   command.executionResult),
            undoStack |-> PopRest(us),
            redoStack |-> Push(rs, command),
            ret |-> TRUE,
            calls |-> <<HandlerCall(command.commandType, "undo",
                          [model |-> m, instruction |-> command.instruction,
                           executionResult |-> command.executionResult])>>]

\* variant: shift() instead of pop(), the oldest command is undone
undo_shift(m, us, rs) ==
  IF us = <<>>
    THEN [model |-> m, undoStack |-> us, redoStack |-> rs,
          ret |-> FALSE, calls |-> <<>>]
  ELSE LET command == us[1]
       IN  [model |-> RegistryUndo(command.commandType, m, command.instruction,
                                   command.executionResult),
            undoStack |-> Tail(us),
            redoStack |-> Push(rs, command),
            ret |-> TRUE,
            calls |-> <<HandlerCall(command.commandType, "undo",
                          [model |-> m, instruction |-> command.instruction,
                           executionResult |-> command.executionResult])>>]

\* variant: the command is popped and undone but not pushed on the redo stack
undo_drop(m, us, rs) ==
  IF us = <<>>
    THEN [model |-> m, undoStack |-> us, redoStack |-> rs,
          ret |-> FALSE, calls |-> <<>>]
  ELSE LET command == us[Len(us)]
       IN  [model |-> RegistryUndo(command.commandType, m, command.instruction,
                                   command.executionResult),
            undoStack |-> PopRest(us),
            redoStack |-> rs,
            ret |-> TRUE,
            calls |-> <<HandlerCall(command.commandType, "undo",
                          [model |-> m, instruction |-> command.instruction,
                           executionResult |-> command.executionResult])>>]

\* variant: emptiness is tested after the pop, on the stack
undo_checksAfterPop(m, us, rs) ==
  IF PopRest(us) = <<>>
    THEN [model |-> m, undoStack |-> PopRest(us), redoStack |-> rs,
          ret |-> FALSE, calls |-> <<>>]
  ELSE LET command == us[Len(us)]
       IN  [model |-> RegistryUndo(command.commandType, m, command.instruction,
                                   command.executionResult),
            undoStack |-> PopRest(us),
            redoStack |-> Push(rs, command),
            ret |-> TRUE,
            calls |-> <<HandlerCall(command.commandType, "undo",
                          [model |-> m, instruction |-> command.instruction,
                           executionResult |-> command.executionResult])>>]

\* variant: the top command is read but not popped
undo_peek(m, us, rs) ==
  IF us = <<>>
    THEN [model |-> m, undoStack |-> us, redoStack |-> rs,
          ret |-> FALSE, calls |-> <<>>]
  ELSE LET command == us[Len(us)]
       IN  [model |-> RegistryUndo(command.commandType, m, command.instruction,
                                   command.executionResult),
            undoStack |-> us,
            redoStack |-> Push(rs, command),
            ret |-> TRUE,
            calls |-> <<HandlerCall(command.commandType, "undo",
                          [model |-> m, instruction |-> command.instruction,
                           executionResult |-> command.executionResult])>>]

\* variant: moves the entry to the redo stack before the handler runs
undo_pushesFirst(m, us, rs) ==
  IF us = <<>>
    THEN [model |-> m, undoStack |-> us, redoStack |-> rs,
          ret |-> FALSE, calls |-> <<>>]
  ELSE LET command == us[Len(us)]
           undone  == RegistryUndo(command.commandType, m, command.instruction,
                                   command.executionResult)
           calls   == <<HandlerCall(command.commandType, "undo",
                          [model |-> m, instruction |-> command.instruction,
                           executionResult |-> command.executionResult])>>
       IN  [model |-> IF Threw(undone) THEN undone.model ELSE undone,
            undoStack |-> PopRest(us),
            redoStack |-> Push(rs, command),
            ret |-> IF Threw(undone) THEN [thrown |-> undone.thrown] ELSE TRUE,
            calls |-> calls]

undo(m, us, rs) ==
  IF us = <<>>
    THEN [model |-> m, undoStack |-> us, redoStack |-> rs,
          ret |-> FALSE, calls |-> <<>>]
  ELSE LET command == us[Len(us)]
           undone  == RegistryUndo(command.commandType, m, command.instruction,
                                   command.executionResult)
           calls   == <<HandlerCall(command.commandType, "undo",
                          [model |-> m, instruction |-> command.instruction,
                           executionResult |-> command.executionResult])>>
       IN  IF Threw(undone)
             THEN [model |-> undone.model,
                   undoStack |-> PopRest(us),
                   redoStack |-> rs,
                   ret |-> [thrown |-> undone.thrown],
                   calls |-> calls]
             ELSE [model |-> undone,
                   undoStack |-> PopRest(us),
                   redoStack |-> Push(rs, command),
                   ret |-> TRUE,
                   calls |-> calls]

\* variant: shift() instead of pop(), the oldest undone command is redone
redo_shift(m, us, rs) ==
  IF rs = <<>>
    THEN [model |-> m, undoStack |-> us, redoStack |-> rs,
          ret |-> FALSE, calls |-> <<>>]
  ELSE LET command == rs[1]
       IN  [model |-> RegistryRedo(command.commandType, m, command.instruction,
                                   command.executionResult),
            undoStack |-> Push(us, command),
            redoStack |-> Tail(rs),
            ret |-> TRUE,
            calls |-> <<HandlerCall(command.commandType, "redo",
                          [model |-> m, instruction |-> command.instruction,
                           executionResult |-> command.executionResult])>>]

\* variant: an empty redo stack is reported as a command redone
redo_alwaysTrue(m, us, rs) ==
  IF rs = <<>>
    THEN [model |-> m, undoStack |-> us, redoStack |-> rs,
          ret |-> TRUE, calls |-> <<>>]
  ELSE LET command == rs[Len(rs)]
       IN  [model |-> RegistryRedo(command.commandType, m, command.instruction,
                                   command.executionResult),
            undoStack |-> Push(us, command),
            redoStack |-> PopRest(rs),
            ret |-> TRUE,
            calls |-> <<HandlerCall(command.commandType, "redo",
                          [model |-> m, instruction |-> command.instruction,
                           executionResult |-> command.executionResult])>>]

\* variant: redo runs the handler's execute again instead of its redo
redo_reexecute(m, us, rs) ==
  IF rs = <<>>
    THEN [model |-> m, undoStack |-> us, redoStack |-> rs,
          ret |-> FALSE, calls |-> <<>>]
  ELSE LET command == rs[Len(rs)]
       IN  [model |-> RegistryExecute(command.commandType, m, command.instruction).model,
            undoStack |-> Push(us, command),
            redoStack |-> PopRest(rs),
            ret |-> TRUE,
            calls |-> <<HandlerCall(command.commandType, "execute",
                          [model |-> m, instruction |-> command.instruction])>>]

\* variant: redo runs execute to obtain the result it hands to the
\* handler's redo
redo_recomputes(m, us, rs) ==
  IF rs = <<>>
    THEN [model |-> m, undoStack |-> us, redoStack |-> rs,
          ret |-> FALSE, calls |-> <<>>]
  ELSE LET command == rs[Len(rs)]
           exec    == RegistryExecute(command.commandType, m, command.instruction)
       IN  [model |-> RegistryRedo(command.commandType, exec.model,
                                   command.instruction, exec.result.result),
            undoStack |-> Push(us, command),
            redoStack |-> PopRest(rs),
            ret |-> TRUE,
            calls |-> <<HandlerCall(command.commandType, "execute",
                          [model |-> m, instruction |-> command.instruction]),
                        HandlerCall(command.commandType, "redo",
                          [model |-> exec.model, instruction |-> command.instruction,
                           executionResult |-> exec.result.result])>>]

\* variant: redo pushes a new entry that lacks the execution result
redo_freshEntry(m, us, rs) ==
  IF rs = <<>>
    THEN [model |-> m, undoStack |-> us, redoStack |-> rs,
          ret |-> FALSE, calls |-> <<>>]
  ELSE LET command == rs[Len(rs)]
       IN  [model |-> RegistryRedo(command.commandType, m, command.instruction,
                                   command.executionResult),
            undoStack |-> Push(us, [command EXCEPT !.executionResult = undefined]),
            redoStack |-> PopRest(rs),
            ret |-> TRUE,
            calls |-> <<HandlerCall(command.commandType, "redo",
                          [model |-> m, instruction |-> command.instruction,
                           executionResult |-> command.executionResult])>>]

\* variant: unshift() instead of push(), the redone command goes to the
\* bottom of the undo stack
redo_unshift(m, us, rs) ==
  IF rs = <<>>
    THEN [model |-> m, undoStack |-> us, redoStack |-> rs,
          ret |-> FALSE, calls |-> <<>>]
  ELSE LET command == rs[Len(rs)]
       IN  [model |-> RegistryRedo(command.commandType, m, command.instruction,
                                   command.executionResult),
            undoStack |-> <<command>> \o us,
            redoStack |-> PopRest(rs),
            ret |-> TRUE,
            calls |-> <<HandlerCall(command.commandType, "redo",
                          [model |-> m, instruction |-> command.instruction,
                           executionResult |-> command.executionResult])>>]

\* variant: the command moves to the undo stack but its handler is not invoked
redo_skipHandler(m, us, rs) ==
  IF rs = <<>>
    THEN [model |-> m, undoStack |-> us, redoStack |-> rs,
          ret |-> FALSE, calls |-> <<>>]
  ELSE [model |-> m, undoStack |-> Push(us, rs[Len(rs)]),
        redoStack |-> PopRest(rs), ret |-> TRUE, calls |-> <<>>]

\* variant: the command is popped and redone but not pushed on the undo stack
redo_drop(m, us, rs) ==
  IF rs = <<>>
    THEN [model |-> m, undoStack |-> us, redoStack |-> rs,
          ret |-> FALSE, calls |-> <<>>]
  ELSE LET command == rs[Len(rs)]
       IN  [model |-> RegistryRedo(command.commandType, m, command.instruction,
                                   command.executionResult),
            undoStack |-> us,
            redoStack |-> PopRest(rs),
            ret |-> TRUE,
            calls |-> <<HandlerCall(command.commandType, "redo",
                          [model |-> m, instruction |-> command.instruction,
                           executionResult |-> command.executionResult])>>]

\* variant: the top command is read from the redo stack but not popped
redo_peek(m, us, rs) ==
  IF rs = <<>>
    THEN [model |-> m, undoStack |-> us, redoStack |-> rs,
          ret |-> FALSE, calls |-> <<>>]
  ELSE LET command == rs[Len(rs)]
       IN  [model |-> RegistryRedo(command.commandType, m, command.instruction,
                                   command.executionResult),
            undoStack |-> Push(us, command),
            redoStack |-> rs,
            ret |-> TRUE,
            calls |-> <<HandlerCall(command.commandType, "redo",
                          [model |-> m, instruction |-> command.instruction,
                           executionResult |-> command.executionResult])>>]

redo(m, us, rs) ==
  IF rs = <<>>
    THEN [model |-> m, undoStack |-> us, redoStack |-> rs,
          ret |-> FALSE, calls |-> <<>>]
  ELSE LET command == rs[Len(rs)]
           redone  == RegistryRedo(command.commandType, m, command.instruction,
                                   command.executionResult)
           calls   == <<HandlerCall(command.commandType, "redo",
                          [model |-> m, instruction |-> command.instruction,
                           executionResult |-> command.executionResult])>>
       IN  IF Threw(redone)
             THEN [model |-> redone.model,
                   undoStack |-> us,
                   redoStack |-> PopRest(rs),
                   ret |-> [thrown |-> redone.thrown],
                   calls |-> calls]
             ELSE [model |-> redone,
                   undoStack |-> Push(us, command),
                   redoStack |-> PopRest(rs),
                   ret |-> TRUE,
                   calls |-> calls]

(* --------------------------- observation ------------------------------- *)
(* lastOp records the latest call on the manager: its arguments, the state *)
(* it was called in (pre), its return value and the handler functions it   *)
(* invoked. model0 is the model at construction time. run follows a fresh  *)
(* manager through n effectful executions and the k undo calls after them; *)
(* cycle follows k undo calls and the j redo calls after them from the     *)
(* state snap in which the first of these undo calls was made.             *)

Snapshot(m, us, rs) == [model |-> m, undoStack |-> us, redoStack |-> rs]

\* the references held by a stack
Refs(stack) == {stack[i].ref : i \in 1..Len(stack)}

Effectful(result) == result.success /\ HadEffect(result)

NoRun == [phase |-> "other"]

RunAfterExecute(r, result) ==
  IF r.phase = "executing" /\ Effectful(result)
    THEN [r EXCEPT !.n = @ + 1]
    ELSE NoRun

RunAfterUndo(r, ret) ==
  IF r.phase \in {"executing", "undoing"} /\ r.k < r.n
    THEN [phase |-> "undoing", n |-> r.n, k |-> r.k + 1, allTrue |-> r.allTrue /\ ret]
    ELSE NoRun

NoCycle == [active |-> FALSE]

CycleAfterUndo(c, pre) ==
  IF c.active /\ c.j = 0
    THEN IF c.k < Len(c.snap.undoStack) THEN [c EXCEPT !.k = @ + 1] ELSE NoCycle
  ELSE IF pre.undoStack # <<>>
    THEN [active |-> TRUE, k |-> 1, j |-> 0, snap |-> pre]
  ELSE NoCycle

CycleAfterRedo(c) ==
  IF c.active /\ c.j < c.k THEN [c EXCEPT !.j = @ + 1] ELSE NoCycle

(* lifo is the order of application: applied lists the commands applied    *)
(* (executed with effect, or redone) and not undone since, oldest first;   *)
(* undone lists the commands undone and neither redone nor abandoned       *)
(* since, in the order they were undone. It is kept from what the calls    *)
(* return and from what the handlers answer, not from the stacks.          *)

LifoAfterExecute(l, commandType, instruction, result, ref) ==
  IF result.success /\ ("hadEffect" \notin DOMAIN result \/ result.hadEffect = TRUE)
    THEN [applied |-> Append(l.applied,
                        NewObject(ref, DoneCommand(commandType, instruction, result.result))),
          undone |-> <<>>]
    ELSE l

LifoAfterUndo(l, ret) ==
  IF ret /\ l.applied # <<>>
    THEN [applied |-> SubSeq(l.applied, 1, Len(l.applied) - 1),
          undone |-> Append(l.undone, l.applied[Len(l.applied)])]
    ELSE l

LifoAfterRedo(l, ret) ==
  IF ret /\ l.undone # <<>>
    THEN [applied |-> Append(l.applied, l.undone[Len(l.undone)]),
          undone |-> SubSeq(l.undone, 1, Len(l.undone) - 1)]
    ELSE l

(* pruned holds the references of the commands abandoned with their branch: *)
(* those that were undone and not redone when a command was executed       *)
(* successfully and with effect.                                           *)

PrunedAfterExecute(p, result, undone) ==
  IF Effectful(result) THEN p \cup Refs(undone) ELSE p

(* trace lists the calls made on the manager since its construction, for   *)
(* as long as they follow one of the call sequences below: "E" is a        *)
(* successful execution with effect, "U" an undo() and "R" a redo().       *)

Scenarios ==
  { <<"E", "E", "U", "U", "R", "R">>,
    <<"E", "E", "U", "U", "E", "R">>,
    <<"E", "E", "U", "E", "U", "R", "U">>,
    <<"E", "U", "R", "U", "R", "U">> }

ShapeOf(t) == [i \in 1..Len(t) |-> t[i].k]

IsPrefix(s, t) == Len(s) <= Len(t) /\ s = SubSeq(t, 1, Len(s))

TraceAfter(t, call) ==
  IF \E sc \in Scenarios : IsPrefix(ShapeOf(Append(t, call)), sc)
    THEN Append(t, call)
    ELSE <<[k |-> "off"]>>

(* counts holds, for a manager whose calls are counted, the number of      *)
(* executions that returned Success with effect, of undo() calls that      *)
(* returned true, of redo() calls that returned true, and of undo() calls  *)
(* that returned true since the latest such execution. Counting stops with *)
(* the call after MaxCount counted undo() calls.                           *)

NotCounting == [on |-> FALSE]

ZeroCounts == [on |-> TRUE, executed |-> 0, undone |-> 0, redone |-> 0,
               undoneSince |-> 0]

CountAfterExecute(c, result) ==
  IF c.on /\ Effectful(result)
    THEN [c EXCEPT !.executed = @ + 1, !.undoneSince = 0]
    ELSE c

CountAfterUndo(c, ret) ==
  IF ~c.on \/ ~ret THEN c
  ELSE IF c.undone = MaxCount THEN NotCounting
  ELSE [c EXCEPT !.undone = @ + 1, !.undoneSince = @ + 1]

CountAfterRedo(c, ret) ==
  IF c.on /\ ret THEN [c EXCEPT !.redone = @ + 1] ELSE c

(* ------------------------------ actions -------------------------------- *)

\* the state a constructed manager, its model and the observers are in
Constructed ==
  /\ model \in InitialModels
  /\ undoStack = <<>>
  /\ redoStack = <<>>
  /\ heap = 0
  /\ lastOp = [op |-> "init"]
  /\ model0 = model
  /\ run = [phase |-> "executing", n |-> 0, k |-> 0, allTrue |-> TRUE]
  /\ cycle = NoCycle
  /\ lifo = [applied |-> <<>>, undone |-> <<>>]
  /\ trace = <<>>
  /\ pruned = {}
  /\ commandTypeRegistry = constructor(paintCommandTypeRegistry)
  /\ manager2 = [model |-> model, undoStack |-> <<>>, redoStack |-> <<>>]

Init == Constructed /\ counts = NotCounting

\* a call that executes a command: r is what the manager's code yields
Called(op, commandType, instruction, r) ==
  /\ model' = r.model
  /\ heap' = IF (heap + 1) \in Refs(r.undoStack) \cup Refs(r.redoStack)
               THEN heap + 1 ELSE heap
  /\ undoStack' = r.undoStack
  /\ redoStack' = r.redoStack
  /\ lastOp' = [op |-> op, commandType |-> commandType,
                instruction |-> instruction, ret |-> r.ret,
                calls |-> r.calls, ref |-> heap + 1,
                pre |-> Snapshot(model, undoStack, redoStack)]
  /\ run' = RunAfterExecute(run, r.ret)
  /\ cycle' = NoCycle
  /\ lifo' = LifoAfterExecute(lifo, commandType, instruction,
                              RegistryExecute(commandType, model, instruction).result,
                              heap + 1)
  /\ trace' = TraceAfter(trace, [k |-> IF Effectful(r.ret) THEN "E" ELSE "N",
                                 commandType |-> commandType,
                                 instruction |-> instruction, ret |-> r.ret])
  /\ pruned' = PrunedAfterExecute(pruned,
                                  RegistryExecute(commandType, model, instruction).result,
                                  redoStack)
  /\ counts' = CountAfterExecute(counts,
                                 RegistryExecute(commandType, model, instruction).result)
  /\ UNCHANGED <<model0, manager2, commandTypeRegistry>>

ExecuteCommand ==
  \E commandType \in DOMAIN commandTypeRegistry :
    \E instruction \in InstructionOf(commandType) :
      /\ Len(undoStack) < MaxHistory
      /\ heap < MaxCommands
      /\ Called("executeCommand", commandType, instruction,
                executeCommand(commandType, instruction, model, undoStack, redoStack,
                               heap + 1))

\* manager.commands.<commandType>(instruction, model)
Commands ==
  \E commandType \in DOMAIN commandTypeRegistry :
    \E instruction \in InstructionOf(commandType) :
      /\ Len(undoStack) < MaxHistory
      /\ heap < MaxCommands
      /\ Called("commands", commandType, instruction,
                commands(commandType, instruction, model, undoStack, redoStack,
                         heap + 1))

\* a call with a name that is no key of the registry, on either surface;
\* lastOp.op is "thrown" when the call ends by throwing
CalledUnknown(surface, commandType, instruction, r) ==
  /\ model' = r.model
  /\ undoStack' = r.undoStack
  /\ redoStack' = r.redoStack
  /\ lastOp' = [op |-> IF r.ret = TypeError THEN "thrown" ELSE surface,
                surface |-> surface, commandType |-> commandType,
                instruction |-> instruction, ret |-> r.ret,
                calls |-> r.calls, ref |-> heap + 1,
                pre |-> Snapshot(model, undoStack, redoStack)]
  /\ run' = NoRun
  /\ cycle' = NoCycle
  /\ trace' = TraceAfter(trace, [k |-> "X", ret |-> r.ret])
  /\ UNCHANGED <<heap, model0, manager2, lifo, pruned, commandTypeRegistry, counts>>

ExecuteUnknown ==
  \E commandType \in UnknownKinds \ DOMAIN commandTypeRegistry :
    \E instruction \in {[rectangleToAdd |-> rect1]} :
      \/ CalledUnknown("executeCommand", commandType, instruction,
                       executeCommand(commandType, instruction, model, undoStack,
                                      redoStack, heap + 1))
      \/ CalledUnknown("commands", commandType, instruction,
                       commands(commandType, instruction, model, undoStack,
                                redoStack, heap + 1))

Undo ==
  LET r == undo(model, undoStack, redoStack)
  IN  /\ model' = r.model
      /\ undoStack' = r.undoStack
      /\ redoStack' = r.redoStack
      /\ lastOp' = [op |-> "undo", ret |-> r.ret, calls |-> r.calls,
                    pre |-> Snapshot(model, undoStack, redoStack)]
      /\ run' = RunAfterUndo(run, r.ret)
      /\ cycle' = CycleAfterUndo(cycle, Snapshot(model, undoStack, redoStack))
      /\ lifo' = LifoAfterUndo(lifo, r.ret)
      /\ trace' = TraceAfter(trace, [k |-> "U", ret |-> r.ret])
      /\ counts' = CountAfterUndo(counts, r.ret)
      /\ UNCHANGED <<model0, manager2, heap, pruned, commandTypeRegistry>>

Redo ==
  LET r == redo(model, undoStack, redoStack)
  IN  /\ model' = r.model
      /\ undoStack' = r.undoStack
      /\ redoStack' = r.redoStack
      /\ lastOp' = [op |-> "redo", ret |-> r.ret, calls |-> r.calls,
                    pre |-> Snapshot(model, undoStack, redoStack)]
      /\ run' = NoRun
      /\ cycle' = CycleAfterRedo(cycle)
      /\ lifo' = LifoAfterRedo(lifo, r.ret)
      /\ trace' = TraceAfter(trace, [k |-> "R", ret |-> r.ret])
      /\ counts' = CountAfterRedo(counts, r.ret)
      /\ UNCHANGED <<model0, manager2, heap, pruned, commandTypeRegistry>>

Next == ExecuteCommand \/ Commands \/ ExecuteUnknown \/ Undo \/ Redo

Spec == Init /\ [][Next]_vars

(* A manager whose calls are counted from its construction on, called     *)
(* with one command of each outcome.                                       *)

CountedCommands ==
  { [commandType |-> "addRectangle", instruction |-> [rectangleToAdd |-> rect1]],
    [commandType |-> "probe",
     instruction |-> [respond |-> [success |-> TRUE, result |-> undefined,
                                   hadEffect |-> FALSE]]],
    [commandType |-> "probe",
     instruction |-> [respond |-> [success |-> FALSE, errorMessage |-> "rejected"]]] }

InitCount == Constructed /\ counts = ZeroCounts

ExecuteCounted ==
  \E c \in CountedCommands :
    /\ Len(undoStack) < MaxHistory
    /\ heap < MaxCommands
    /\ Called("executeCommand", c.commandType, c.instruction,
              executeCommand(c.commandType, c.instruction, model, undoStack,
                             redoStack, heap + 1))

NextCount == ExecuteCounted \/ Undo \/ Redo

SpecCount == InitCount /\ [][NextCount]_vars

(* ------------------- LinearCommandManager, src/commands.ts ------------- *)
(* The manager of src/commands.ts: executeCommand looks the handler up and *)
(* runs its execute, keeps nothing of the result and returns nothing; the  *)
(* commands object holds one closure per key of the registry.              *)

executeCommandTs(commandType, command, m) ==
  [model |-> RegistryExecute(commandType, m, command).model,
   ret |-> undefined,
   calls |-> <<HandlerCall(commandType, "execute",
                           [model |-> m, instruction |-> command])>>]

\* the closure makeCommand(commandType) returns, applied to (instruction, m)
makeCommandTs(commandType, instruction, m) ==
  [executeCommandTs(commandType, instruction, m) EXCEPT !.ret = undefined]

\* the commands object: Object.keys(commandTypeRegistry), each key mapped to
\* the closure made for it (a closure is given by the kind it captured)
commandsTs == [k \in CommandTypes |-> k]

\* reading the property name of that object
commandsGetTs(name) ==
  IF name \in DOMAIN commandsTs THEN Closure(commandsTs[name]) ELSE undefined

\* the models executeCommand is offered in
ModelSize(m) == Len(m.rectangles) + Len(m.circles)

CalledTs(op, commandType, instruction, r) ==
  /\ model' = r.model
  /\ lastOp' = [op |-> op, commandType |-> commandType,
                instruction |-> instruction, ret |-> r.ret, calls |-> r.calls,
                ref |-> heap + 1,
                pre |-> Snapshot(model, undoStack, redoStack)]
  /\ UNCHANGED <<undoStack, redoStack, heap, model0, manager2, run, cycle, lifo, trace,
                 pruned, commandTypeRegistry, counts>>

ExecuteCommandTs ==
  \E commandType \in CommandTypes :
    \E instruction \in InstructionOf(commandType) :
      /\ ModelSize(model) < ModelSize(model0) + MaxHistory
      /\ CalledTs("executeCommand", commandType, instruction,
                  executeCommandTs(commandType, instruction, model))

CommandsTs ==
  \E name \in DOMAIN commandsTs :
    \E instruction \in InstructionOf(commandsTs[name]) :
      /\ ModelSize(model) < ModelSize(model0) + MaxHistory
      /\ CalledTs("commands", name, instruction,
                  makeCommandTs(commandsTs[name], instruction, model))

NextTs == ExecuteCommandTs \/ CommandsTs

SpecTs == Init /\ [][NextTs]_vars

(* ----------------------- handlers that throw ------------------------- *)
(* The same manager driven with commands whose handler throws in execute,  *)
(* in undo or in redo, or has no redo function, next to an ordinary        *)
(* command. lastOp.threw tells whether the handler function that the call  *)
(* invoked ended by throwing.                                              *)

Faults == {"execute", "undo", "redo", "noRedo"}

ThrowingCommands ==
  {[commandType |-> "addRectangle", instruction |-> [rectangleToAdd |-> rect1]]}
  \cup {[commandType |-> "probe",
         instruction |-> [respond |-> [success |-> TRUE, result |-> undefined],
                          fault |-> f]] : f \in Faults}

ExecuteThrowing ==
  \E c \in ThrowingCommands :
    LET r == executeCommand(c.commandType, c.instruction, model, undoStack,
                            redoStack, heap + 1)
    IN  /\ Len(undoStack) < MaxHistory
        /\ heap < MaxCommands
        /\ model' = r.model
        /\ heap' = IF (heap + 1) \in Refs(r.undoStack) \cup Refs(r.redoStack)
                     THEN heap + 1 ELSE heap
        /\ undoStack' = r.undoStack
        /\ redoStack' = r.redoStack
        /\ lastOp' = [op |-> "executeCommand",
                      threw |-> Threw(RegistryExecute(c.commandType, model,
                                                      c.instruction)),
                      commandType |-> c.commandType,
                      instruction |-> c.instruction, ret |-> r.ret,
                      calls |-> r.calls, ref |-> heap + 1,
                      pre |-> Snapshot(model, undoStack, redoStack)]
        /\ UNCHANGED <<model0, manager2, run, cycle, lifo, trace, pruned,
                       commandTypeRegistry, counts>>

UndoThrowing ==
  LET r == undo(model, undoStack, redoStack)
      command == undoStack[Len(undoStack)]
  IN  /\ model' = r.model
      /\ undoStack' = r.undoStack
      /\ redoStack' = r.redoStack
      /\ lastOp' = [op |-> "undo",
                    threw |-> /\ undoStack # <<>>
                              /\ Threw(RegistryUndo(command.commandType, model,
                                                    command.instruction,
                                                    command.executionResult)),
                    ret |-> r.ret, calls |-> r.calls,
                    pre |-> Snapshot(model, undoStack, redoStack)]
      /\ UNCHANGED <<model0, manager2, heap, run, cycle, lifo, trace, pruned,
                     commandTypeRegistry, counts>>

RedoThrowing ==
  LET r == redo(model, undoStack, redoStack)
      command == redoStack[Len(redoStack)]
  IN  /\ model' = r.model
      /\ undoStack' = r.undoStack
      /\ redoStack' = r.redoStack
      /\ lastOp' = [op |-> "redo",
                    threw |-> /\ redoStack # <<>>
                              /\ Threw(RegistryRedo(command.commandType, model,
                                                    command.instruction,
                                                    command.executionResult)),
                    ret |-> r.ret, calls |-> r.calls,
                    pre |-> Snapshot(model, undoStack, redoStack)]
      /\ UNCHANGED <<model0, manager2, heap, run, cycle, lifo, trace, pruned,
                     commandTypeRegistry, counts>>

NextThrow == ExecuteThrowing \/ UndoThrowing \/ RedoThrowing

SpecThrow == Init /\ [][NextThrow]_vars

(* ---------------------------- two managers ---------------------------- *)
(* A second LinearCommandManager built from the same registry, with a      *)
(* model of its own: manager2 holds its stacks and the model its calls are *)
(* given; manager 1 is the one of undoStack, redoStack and model. lastOp   *)
(* keeps which manager was called and what the other one held before.      *)

Managers == {1, 2}

TheOther(i) == 3 - i

\* variant: the arrays are made once and every instance refers to them
ArraysOf_shared(i) == 1

\* the arrays that this.undoStack and this.redoStack of instance i refer to:
\* the field initialisers `= []` run at each construction
ArraysOf(i) == i

\* what instance i sees: the model of its caller and the arrays of its fields
This(i) ==
  [model |-> IF i = 1 THEN model ELSE manager2.model,
   undoStack |-> IF ArraysOf(i) = 1 THEN undoStack ELSE manager2.undoStack,
   redoStack |-> IF ArraysOf(i) = 1 THEN redoStack ELSE manager2.redoStack]

TwoManagerCommands ==
  { [commandType |-> "addRectangle", instruction |-> [rectangleToAdd |-> rect1]],
    [commandType |-> "addCircle", instruction |-> [circleToAdd |-> circle1]] }

\* a call on instance i yielding r: the model of i and the arrays of i change
CalledOn(i, op, r) ==
  /\ model' = IF i = 1 THEN r.model ELSE model
  /\ undoStack' = IF ArraysOf(i) = 1 THEN r.undoStack ELSE undoStack
  /\ redoStack' = IF ArraysOf(i) = 1 THEN r.redoStack ELSE redoStack
  /\ manager2' =
       [model |-> IF i = 2 THEN r.model ELSE manager2.model,
        undoStack |-> IF ArraysOf(i) = 2 THEN r.undoStack ELSE manager2.undoStack,
        redoStack |-> IF ArraysOf(i) = 2 THEN r.redoStack ELSE manager2.redoStack]
  /\ heap' = IF (heap + 1) \in Refs(r.undoStack) \cup Refs(r.redoStack)
               THEN heap + 1 ELSE heap
  /\ lastOp' = [op |-> op, manager |-> i, ret |-> r.ret, calls |-> r.calls,
                pre |-> This(i), other |-> This(TheOther(i))]
  /\ UNCHANGED <<model0, run, cycle, lifo, trace, pruned, commandTypeRegistry,
                 counts>>

ExecuteOn ==
  \E i \in Managers :
    \E c \in TwoManagerCommands :
      /\ Len(This(i).undoStack) < MaxHistory
      /\ heap < MaxCommands
      /\ CalledOn(i, "executeCommand",
                  executeCommand(c.commandType, c.instruction, This(i).model,
                                 This(i).undoStack, This(i).redoStack, heap + 1))

UndoOn ==
  \E i \in Managers :
    LET r == undo(This(i).model, This(i).undoStack, This(i).redoStack)
    IN  /\ CalledOn(i, "undo", r)

RedoOn ==
  \E i \in Managers :
    LET r == redo(This(i).model, This(i).undoStack, This(i).redoStack)
    IN  /\ CalledOn(i, "redo", r)

NextTwo == ExecuteOn \/ UndoOn \/ RedoOn

SpecTwo == Init /\ [][NextTwo]_vars

(* ------------------------------ claims --------------------------------- *)

\* the state the latest call left behind
Current == Snapshot(model, undoStack, redoStack)

\* what the handler's execute returned to the latest executeCommand
HandlerResult ==
  RegistryExecute(lastOp.commandType, lastOp.pre.model, lastOp.instruction).result

\* kind, instruction and result of a Done Command
Fields(command) ==
  [commandType |-> command.commandType, instruction |-> command.instruction,
   executionResult |-> command.executionResult]

\* Success with hadEffect true or omitted
SuccessWithEffect(res) ==
  res.success /\ ("hadEffect" \notin DOMAIN res \/ res.hadEffect = TRUE)

\* Success with hadEffect explicitly false
SuccessWithoutEffect(res) ==
  res.success /\ "hadEffect" \in DOMAIN res /\ res.hadEffect = FALSE

\* C1: on a fresh manager, after n effectful successful executeCommand calls,
\* each of the following undo() calls (up to n of them) returns true, and
\* after the n-th the model equals the model before the first executeCommand.
C1_ExecuteUndoRoundTrip ==
  run.phase = "undoing" =>
    /\ run.allTrue
    /\ run.k = run.n => model = model0

C1_Witness ==
  /\ run.phase = "undoing"
  /\ run.n = MaxHistory
  /\ run.k = run.n
  /\ model0.rectangles # <<>>
  /\ \E i \in 1..Len(redoStack) : redoStack[i].commandType = "addRectangleWithResult"
  /\ \E i \in 1..Len(redoStack) : redoStack[i].commandType = "addRectangle"

\* C2: k undo() calls (k not larger than the undo stack size) followed by k
\* redo() calls leave the model, the undo stack and the redo stack as they
\* were immediately before the first of the undo() calls.
C2_UndoRedoRoundTrip ==
  (cycle.active /\ cycle.j = cycle.k) => Current = cycle.snap

C2_Witness ==
  /\ cycle.active
  /\ cycle.k >= 2
  /\ cycle.j = cycle.k
  /\ cycle.snap.redoStack # <<>>
  /\ lastOp.op = "redo"

\* C3: an executeCommand that succeeds with effect while undone commands are
\* on the redo stack leaves the redo stack empty; a redo() called next
\* returns false, invokes no handler and leaves the model alone.
C3_RedoPrunedByExecute ==
  (/\ lastOp.op = "executeCommand"
   /\ SuccessWithEffect(HandlerResult)
   /\ lastOp.pre.redoStack # <<>>) =>
    /\ redoStack = <<>>
    /\ LET next == redo(model, undoStack, redoStack)
       IN  /\ next.ret = FALSE
           /\ next.calls = <<>>
           /\ next.model = model
           /\ next.undoStack = undoStack

C3_Witness ==
  /\ lastOp.op = "executeCommand"
  /\ SuccessWithEffect(HandlerResult)
  /\ Len(lastOp.pre.redoStack) >= 2
  /\ redoStack = <<>>

\* C4: when execute returns Success with hadEffect true or omitted, the redo
\* stack is empty afterwards and the undo stack is the former undo stack with
\* exactly one Done Command {kind, instruction, result.result} appended.
C4_EffectfulExecuteRecords ==
  (lastOp.op = "executeCommand" /\ SuccessWithEffect(HandlerResult)) =>
    /\ redoStack = <<>>
    /\ Len(undoStack) = Len(lastOp.pre.undoStack) + 1
    /\ SubSeq(undoStack, 1, Len(lastOp.pre.undoStack)) = lastOp.pre.undoStack
    /\ Fields(undoStack[Len(undoStack)]) =
         [commandType |-> lastOp.commandType,
          instruction |-> lastOp.instruction,
          executionResult |-> HandlerResult.result]

C4_Witness ==
  /\ lastOp.op = "executeCommand"
  /\ "hadEffect" \notin DOMAIN HandlerResult
  /\ HandlerResult.success
  /\ lastOp.commandType = "addRectangleWithResult"
  /\ lastOp.pre.undoStack # <<>>
  /\ lastOp.pre.redoStack # <<>>
  /\ Len(undoStack) = Len(lastOp.pre.undoStack) + 1

\* C5: when execute returns Failure, executeCommand returns that Failure and
\* both stacks are as before the call; undone commands stay redoable.
C5_FailureLeavesHistory ==
  (lastOp.op = "executeCommand" /\ ~HandlerResult.success) =>
    /\ lastOp.ret = HandlerResult
    /\ undoStack = lastOp.pre.undoStack
    /\ redoStack = lastOp.pre.redoStack
    /\ lastOp.pre.redoStack # <<>> => redo(model, undoStack, redoStack).ret = TRUE

C5_Witness ==
  /\ lastOp.op = "executeCommand"
  /\ lastOp.ret = [success |-> FALSE, errorMessage |-> "rejected"]
  /\ undoStack # <<>>
  /\ redoStack # <<>>

\* C6: when execute returns Success with hadEffect explicitly false,
\* executeCommand returns that result and leaves both stacks as they were,
\* and an undo() or a redo() called next returns and does what it would have
\* returned and done had the executeCommand not been called.
C6_NoEffectLeavesHistory ==
  (lastOp.op = "executeCommand" /\ SuccessWithoutEffect(HandlerResult)) =>
    /\ lastOp.ret = HandlerResult
    /\ undoStack = lastOp.pre.undoStack
    /\ redoStack = lastOp.pre.redoStack
    /\ undo(model, undoStack, redoStack)
         = undo(lastOp.pre.model, lastOp.pre.undoStack, lastOp.pre.redoStack)
    /\ redo(model, undoStack, redoStack)
         = redo(lastOp.pre.model, lastOp.pre.undoStack, lastOp.pre.redoStack)

C6_Witness ==
  /\ lastOp.op = "executeCommand"
  /\ lastOp.ret = [success |-> TRUE, result |-> undefined, hadEffect |-> FALSE]
  /\ undoStack # <<>>
  /\ redoStack # <<>>

\* C7: undo() returns true exactly when the undo stack was non-empty at the
\* call; on an empty undo stack it returns false, invokes no handler and
\* leaves the model and both stacks as they were.
C7_UndoReturnValue ==
  lastOp.op = "undo" =>
    /\ lastOp.ret = (lastOp.pre.undoStack # <<>>)
    /\ lastOp.pre.undoStack = <<>> =>
         /\ lastOp.ret = FALSE
         /\ lastOp.calls = <<>>
         /\ Current = lastOp.pre

C7_Witness ==
  /\ lastOp.op = "undo"
  /\ lastOp.pre.undoStack = <<>>
  /\ lastOp.pre.redoStack # <<>>
  /\ lastOp.ret = FALSE

\* C8: redo() returns true exactly when the redo stack was non-empty at the
\* call; on an empty redo stack (a fresh manager, or executions with no
\* undo) it returns false, invokes no handler and leaves the model and both
\* stacks as they were.
C8_RedoReturnValue ==
  lastOp.op = "redo" =>
    /\ lastOp.ret = (lastOp.pre.redoStack # <<>>)
    /\ lastOp.pre.redoStack = <<>> =>
         /\ lastOp.ret = FALSE
         /\ lastOp.calls = <<>>
         /\ Current = lastOp.pre

C8_Witness ==
  /\ lastOp.op = "redo"
  /\ lastOp.pre.redoStack = <<>>
  /\ lastOp.pre.undoStack # <<>>
  /\ lastOp.ret = FALSE

\* C9: on a non-empty undo stack, undo() removes exactly the top Done
\* Command, invokes once (and only) the undo function of the handler
\* registered under its stored kind with the model, the stored instruction
\* and the stored executionResult, leaves the model as that function left
\* it, pushes that Done Command on the redo stack and returns true.
C9_UndoMovesTop ==
  (lastOp.op = "undo" /\ lastOp.pre.undoStack # <<>>) =>
    LET pre == lastOp.pre
        top == pre.undoStack[Len(pre.undoStack)]
    IN  /\ undoStack = SubSeq(pre.undoStack, 1, Len(pre.undoStack) - 1)
        /\ redoStack = Append(pre.redoStack, top)
        /\ lastOp.calls =
             <<[commandType |-> top.commandType, fn |-> "undo",
                args |-> [model |-> pre.model, instruction |-> top.instruction,
                          executionResult |-> top.executionResult]]>>
        /\ model = RegistryUndo(top.commandType, pre.model, top.instruction,
                                top.executionResult)
        /\ lastOp.ret = TRUE

C9_Witness ==
  /\ lastOp.op = "undo"
  /\ Len(lastOp.pre.undoStack) >= 2
  /\ lastOp.pre.redoStack # <<>>
  /\ lastOp.calls # <<>>
  /\ lastOp.calls[1].commandType = "addRectangleWithResult"
  /\ model # lastOp.pre.model

\* C10: on a non-empty redo stack, redo() removes exactly the top Done
\* Command, invokes once (and only) the redo function of the handler
\* registered under its stored kind with the model, the stored instruction
\* and the stored executionResult, leaves the model as that function left
\* it, pushes that Done Command on the undo stack and returns true.
C10_RedoMovesTop ==
  (lastOp.op = "redo" /\ lastOp.pre.redoStack # <<>>) =>
    LET pre == lastOp.pre
        top == pre.redoStack[Len(pre.redoStack)]
    IN  /\ redoStack = SubSeq(pre.redoStack, 1, Len(pre.redoStack) - 1)
        /\ undoStack = Append(pre.undoStack, top)
        /\ lastOp.calls =
             <<[commandType |-> top.commandType, fn |-> "redo",
                args |-> [model |-> pre.model, instruction |-> top.instruction,
                          executionResult |-> top.executionResult]]>>
        /\ model = RegistryRedo(top.commandType, pre.model, top.instruction,
                                top.executionResult)
        /\ lastOp.ret = TRUE

C10_Witness ==
  /\ lastOp.op = "redo"
  /\ Len(lastOp.pre.redoStack) >= 2
  /\ lastOp.pre.undoStack # <<>>
  /\ lastOp.calls # <<>>
  /\ lastOp.calls[1].commandType = "addRectangleWithResult"
  /\ model # lastOp.pre.model

\* the one handler call an undo() or redo() of command makes in model m
MoveCall(fn, command, m) ==
  <<[commandType |-> command.commandType, fn |-> fn,
     args |-> [model |-> m, instruction |-> command.instruction,
               executionResult |-> command.executionResult]]>>

\* C11: an undo() that returns true reverses the most recently applied
\* command not yet undone, a redo() that returns true re-applies the most
\* recently undone command, and in every reachable state the undo stack is
\* the applied commands in order of application and the redo stack the
\* undone commands in order of undoing (strict LIFO on both).
C11_StrictLifo ==
  /\ undoStack = lifo.applied
  /\ redoStack = lifo.undone
  /\ (lastOp.op = "undo" /\ lastOp.ret) =>
       /\ lifo.undone # <<>>
       /\ lastOp.calls = MoveCall("undo", lifo.undone[Len(lifo.undone)], lastOp.pre.model)
  /\ (lastOp.op = "redo" /\ lastOp.ret) =>
       /\ lifo.applied # <<>>
       /\ lastOp.calls = MoveCall("redo", lifo.applied[Len(lifo.applied)], lastOp.pre.model)

C11_Witness ==
  /\ lastOp.op = "undo"
  /\ lastOp.ret
  /\ Len(lifo.undone) = 2
  /\ Len(lifo.applied) = 1
  /\ lifo.undone[1].commandType = "addCircle"
  /\ lifo.undone[2].commandType = "addRectangle"
  /\ lifo.applied[1].commandType = "addRectangleWithResult"

\* C12: executeCommand returns to its caller the result value the handler's
\* execute produced (the Success result, or the Failure unchanged), for
\* every command kind and instruction. (Holds of the manager with history
\* under Spec; the manager of src/commands.ts returns nothing, under SpecTs.)
C12_ReturnsHandlerResult ==
  lastOp.op = "executeCommand" => lastOp.ret = HandlerResult

\* what executeCommand yields when called as the latest call was
SameExecuteCommand ==
  executeCommand(lastOp.commandType, lastOp.instruction, lastOp.pre.model,
                 lastOp.pre.undoStack, lastOp.pre.redoStack, lastOp.ref)

\* C13: for every registered kind K, commands.K(instruction, model) returns
\* the value and leaves the model, the undo stack and the redo stack that
\* executeCommand(K, instruction, model) returns and leaves.
C13_CommandsIsExecuteCommand ==
  lastOp.op = "commands" =>
    /\ lastOp.ret = SameExecuteCommand.ret
    /\ model = SameExecuteCommand.model
    /\ undoStack = SameExecuteCommand.undoStack
    /\ redoStack = SameExecuteCommand.redoStack
    /\ lastOp.calls = SameExecuteCommand.calls

C13_Witness ==
  /\ lastOp.op = "commands"
  /\ lastOp.commandType = "addCircle"
  /\ lastOp.ret = [success |-> TRUE, result |-> undefined]
  /\ lastOp.pre.redoStack # <<>>
  /\ redoStack = <<>>
  /\ Len(undoStack) = 2

\* the kinds of the commands on a stack, oldest first
KindsOf(stack) == [i \in 1..Len(stack) |-> stack[i].commandType]

\* C14: executeCommand(kind, instruction, model) invokes the execute function
\* of the handler registered under kind once, with the given model and
\* instruction, and no other handler function: the model it leaves is the
\* one that single invocation leaves. On a manager created over the empty
\* model, one addRectangle and two addCircle executions leave 1 rectangle
\* and 2 circles.
C14_ExecutesRegisteredHandlerOnce ==
  /\ lastOp.op = "executeCommand" =>
       /\ lastOp.calls =
            <<HandlerCall(lastOp.commandType, "execute",
                          [model |-> lastOp.pre.model,
                           instruction |-> lastOp.instruction])>>
       /\ model = RegistryExecute(lastOp.commandType, lastOp.pre.model,
                                  lastOp.instruction).model
  /\ ( /\ model0 = PaintModel(<<>>, <<>>)
       /\ run.phase = "executing"
       /\ KindsOf(undoStack) \in { <<"addRectangle", "addCircle", "addCircle">>,
                                   <<"addCircle", "addRectangle", "addCircle">>,
                                   <<"addCircle", "addCircle", "addRectangle">> } )
     => Len(model.rectangles) = 1 /\ Len(model.circles) = 2

C14_Witness ==
  /\ lastOp.op = "executeCommand"
  /\ lastOp.commandType = "addCircle"
  /\ model0 = PaintModel(<<>>, <<>>)
  /\ run.phase = "executing"
  /\ KindsOf(undoStack) = <<"addRectangle", "addCircle", "addCircle">>
  /\ Len(model.rectangles) = 1
  /\ Len(model.circles) = 2

\* the calls made since construction are exactly those of shape
Did(shape) == ShapeOf(trace) = shape

\* the calls made since construction start with those of shape
Began(shape) == IsPrefix(shape, ShapeOf(trace))

\* the first two calls executed addRectangleWithResult on the empty model
TwoWithResult ==
  /\ model0 = PaintModel(<<>>, <<>>)
  /\ Began(<<"E", "E">>)
  /\ trace[1].commandType = "addRectangleWithResult"
  /\ trace[2].commandType = "addRectangleWithResult"

\* C15: two executions of addRectangleWithResult on an empty model answer
\* addedId 0 and addedId 1; the first undo() leaves exactly the first
\* rectangle, the second leaves none, and two redo() calls bring both
\* rectangles back in their original order.
C15_WithResultScenario ==
  TwoWithResult =>
    LET first  == trace[1].instruction.rectangleToAdd
        second == trace[2].instruction.rectangleToAdd
    IN  /\ trace[1].ret = [success |-> TRUE, result |-> [addedId |-> 0]]
        /\ trace[2].ret = [success |-> TRUE, result |-> [addedId |-> 1]]
        /\ Did(<<"E", "E">>) => model.rectangles = <<first, second>>
        /\ Did(<<"E", "E", "U">>) =>
             lastOp.ret = TRUE /\ model.rectangles = <<first>>
        /\ Did(<<"E", "E", "U", "U">>) =>
             lastOp.ret = TRUE /\ model.rectangles = <<>>
        /\ Did(<<"E", "E", "U", "U", "R">>) =>
             lastOp.ret = TRUE /\ model.rectangles = <<first>>
        /\ Did(<<"E", "E", "U", "U", "R", "R">>) =>
             lastOp.ret = TRUE /\ model.rectangles = <<first, second>>

C15_Witness ==
  /\ TwoWithResult
  /\ Did(<<"E", "E", "U", "U", "R", "R">>)
  /\ trace[1].instruction.rectangleToAdd = rect1
  /\ trace[2].instruction.rectangleToAdd = rect2
  /\ model.rectangles = <<rect1, rect2>>

\* the model that executing the recorded call on m leaves
ExecutedOn(m, call) == RegistryExecute(call.commandType, m, call.instruction).model

\* C16 as stated: after execute A, execute B, undo, undo, execute C (all
\* successful with effect), redo() returns false and the model reflects
\* only A and C, i.e. it is the model that executing A and then C on the
\* initial model leaves.
C16_ModelReflectsAandC ==
  Did(<<"E", "E", "U", "U", "E", "R">>) =>
    /\ lastOp.ret = FALSE
    /\ model = ExecutedOn(ExecutedOn(model0, trace[1]), trace[5])

\* C16, amended: after execute A, execute B, undo, undo, execute C (all
\* successful with effect), redo() returns false, invokes no handler, and
\* the model reflects only C: it is the model that executing C on the
\* initial model leaves; C is the only command on the undo stack and the
\* redo stack is empty.
C16_ModelReflectsOnlyC ==
  Did(<<"E", "E", "U", "U", "E", "R">>) =>
    /\ lastOp.ret = FALSE
    /\ lastOp.calls = <<>>
    /\ model = ExecutedOn(model0, trace[5])
    /\ Len(undoStack) = 1
    /\ undoStack[1].commandType = trace[5].commandType
    /\ undoStack[1].instruction = trace[5].instruction
    /\ redoStack = <<>>

C16_Witness ==
  /\ Did(<<"E", "E", "U", "U", "E", "R">>)
  /\ model0 = PaintModel(<<>>, <<>>)
  /\ trace[1].commandType = "addRectangle"
  /\ trace[1].instruction.rectangleToAdd = rect1
  /\ trace[2].commandType = "addCircle"
  /\ trace[5].commandType = "addRectangle"
  /\ trace[5].instruction.rectangleToAdd = rect2
  /\ lastOp.op = "redo"
  /\ lastOp.ret = FALSE
  /\ model = PaintModel(<<rect2>>, <<>>)

\* the Done Command the recorded execution created, without its reference
DoneBy(call) == DoneCommand(call.commandType, call.instruction, call.ret.result)

\* C17: after execute X, execute Y, undo, execute Z, undo, the call redo()
\* returns true and invokes the redo function of Z's handler for Z: the
\* model is the one that X and then Z leave, Y is on neither stack and its
\* effect is absent; a further undo() returns true and leaves the model
\* that X alone leaves.
C17_RedoAfterNewBranch ==
  /\ Did(<<"E", "E", "U", "E", "U", "R">>) =>
       /\ lastOp.ret = TRUE
       /\ lastOp.calls = MoveCall("redo", DoneBy(trace[4]), lastOp.pre.model)
       /\ model = ExecutedOn(ExecutedOn(model0, trace[1]), trace[4])
       /\ Len(undoStack) = 2
       /\ Fields(undoStack[1]) = DoneBy(trace[1])
       /\ Fields(undoStack[2]) = DoneBy(trace[4])
       /\ redoStack = <<>>
  /\ Did(<<"E", "E", "U", "E", "U", "R", "U">>) =>
       /\ lastOp.ret = TRUE
       /\ lastOp.calls = MoveCall("undo", DoneBy(trace[4]), lastOp.pre.model)
       /\ model = ExecutedOn(model0, trace[1])
       /\ Len(redoStack) = 1
       /\ Fields(redoStack[1]) = DoneBy(trace[4])

C17_Witness ==
  /\ Did(<<"E", "E", "U", "E", "U", "R", "U">>)
  /\ model0 = PaintModel(<<>>, <<>>)
  /\ trace[1].commandType = "addRectangle"
  /\ trace[1].instruction.rectangleToAdd = rect1
  /\ trace[2].commandType = "addCircle"
  /\ trace[4].commandType = "addRectangle"
  /\ trace[4].instruction.rectangleToAdd = rect2
  /\ trace[6].ret = TRUE
  /\ model = PaintModel(<<rect1>>, <<>>)

\* no instance is on both stacks and none is twice on one stack
Disjoint(us, rs) ==
  /\ Refs(us) \cap Refs(rs) = {}
  /\ Cardinality(Refs(us)) = Len(us)
  /\ Cardinality(Refs(rs)) = Len(rs)

\* exactly one instance left the stack from and it is the one instance that
\* entered the stack to
MovesOne(fromPre, toPre, fromNow, toNow) ==
  \E ref \in Refs(fromPre) :
    /\ ref \notin Refs(toPre)
    /\ Refs(fromNow) = Refs(fromPre) \ {ref}
    /\ Refs(toNow) = Refs(toPre) \cup {ref}
    /\ Len(fromNow) = Len(fromPre) - 1
    /\ Len(toNow) = Len(toPre) + 1

\* C18 as stated: the two stacks are disjoint, none holds an instance twice,
\* and every undo() and redo() that returns (none throws here) moves exactly
\* one instance from one stack to the other.
C18_EveryReturnMovesOne ==
  /\ Disjoint(undoStack, redoStack)
  /\ lastOp.op = "undo" =>
       MovesOne(lastOp.pre.undoStack, lastOp.pre.redoStack, undoStack, redoStack)
  /\ lastOp.op = "redo" =>
       MovesOne(lastOp.pre.redoStack, lastOp.pre.undoStack, redoStack, undoStack)

\* C18, amended: the two stacks are disjoint and none holds an instance
\* twice; an undo() or redo() that returns true moves exactly one instance
\* from one stack to the other, and one that returns false moves none.
C18_DisjointStacks ==
  /\ Disjoint(undoStack, redoStack)
  /\ lastOp.op = "undo" =>
       IF lastOp.ret
         THEN MovesOne(lastOp.pre.undoStack, lastOp.pre.redoStack,
                       undoStack, redoStack)
         ELSE undoStack = lastOp.pre.undoStack /\ redoStack = lastOp.pre.redoStack
  /\ lastOp.op = "redo" =>
       IF lastOp.ret
         THEN MovesOne(lastOp.pre.redoStack, lastOp.pre.undoStack,
                       redoStack, undoStack)
         ELSE undoStack = lastOp.pre.undoStack /\ redoStack = lastOp.pre.redoStack

C18_Witness ==
  /\ lastOp.op = "redo"
  /\ lastOp.ret = TRUE
  /\ Len(lastOp.pre.redoStack) = 2
  /\ Len(lastOp.pre.undoStack) = 1
  /\ Refs(undoStack) = Refs(lastOp.pre.undoStack)
                         \cup {lastOp.pre.redoStack[2].ref}
  /\ Len(redoStack) = 1

OnStack(ref, stack) == ref \in Refs(stack)

Top(stack) == stack[Len(stack)]

\* every instance created so far is on the undo stack, on the redo stack or
\* pruned, and only one of the three
OneStateEach ==
  /\ Disjoint(undoStack, redoStack)
  /\ Refs(undoStack) \cup Refs(redoStack) \cup pruned = 1..heap
  /\ pruned \cap (Refs(undoStack) \cup Refs(redoStack)) = {}

\* what one call may do to the instance ref
LifecycleStep(ref) ==
  /\ (OnStack(ref, undoStack) /\ ~OnStack(ref, undoStack')) =>
       /\ lastOp'.op = "undo"
       /\ ref = Top(undoStack).ref
       /\ OnStack(ref, redoStack')
  /\ (OnStack(ref, redoStack) /\ ~OnStack(ref, redoStack')) =>
       \/ /\ lastOp'.op = "redo"
          /\ ref = Top(redoStack).ref
          /\ OnStack(ref, undoStack')
       \/ /\ lastOp'.op \in {"executeCommand", "commands"}
          /\ ref \in pruned'
  /\ (~OnStack(ref, undoStack) /\ OnStack(ref, undoStack')) =>
       \/ lastOp'.op = "redo" /\ OnStack(ref, redoStack)
       \/ lastOp'.op \in {"executeCommand", "commands"} /\ ref = heap + 1
  /\ (~OnStack(ref, redoStack) /\ OnStack(ref, redoStack')) =>
       lastOp'.op = "undo" /\ OnStack(ref, undoStack)
  /\ ref \in pruned =>
       /\ ref \in pruned'
       /\ ~OnStack(ref, undoStack')
       /\ ~OnStack(ref, redoStack')

\* the undo and redo functions are invoked for the top entry of a stack,
\* hence for no pruned instance
InvokedForTop ==
  /\ (lastOp'.op = "undo" /\ lastOp'.calls # <<>>) =>
       /\ undoStack # <<>>
       /\ Top(undoStack).ref \notin pruned
       /\ lastOp'.calls = MoveCall("undo", Top(undoStack), model)
  /\ (lastOp'.op = "redo" /\ lastOp'.calls # <<>>) =>
       /\ redoStack # <<>>
       /\ Top(redoStack).ref \notin pruned
       /\ lastOp'.calls = MoveCall("redo", Top(redoStack), model)
  /\ lastOp'.op \in {"executeCommand", "commands"} =>
       \A i \in 1..Len(lastOp'.calls) : lastOp'.calls[i].fn = "execute"

NotAppended(pre, now) == IsPrefix(now, pre)

\* now is pre with one entry pushed
AppendedOne(pre, now) ==
  Len(now) = Len(pre) + 1 /\ SubSeq(now, 1, Len(pre)) = pre

\* C20: executeCommand (directly or through commands) appends at most one
\* entry, to the undo stack, and none to the redo stack; undo() appends at
\* most one entry, to the redo stack, and none to the undo stack; redo()
\* appends at most one entry, to the undo stack, and none to the redo stack.
C20_AppendsToOneStack ==
  /\ lastOp.op \in {"executeCommand", "commands"} =>
       /\ NotAppended(lastOp.pre.redoStack, redoStack)
       /\ \/ undoStack = lastOp.pre.undoStack
          \/ AppendedOne(lastOp.pre.undoStack, undoStack)
  /\ lastOp.op = "undo" =>
       /\ NotAppended(lastOp.pre.undoStack, undoStack)
       /\ \/ redoStack = lastOp.pre.redoStack
          \/ AppendedOne(lastOp.pre.redoStack, redoStack)
  /\ lastOp.op = "redo" =>
       /\ NotAppended(lastOp.pre.redoStack, redoStack)
       /\ \/ undoStack = lastOp.pre.undoStack
          \/ AppendedOne(lastOp.pre.undoStack, undoStack)

C20_Witness ==
  /\ lastOp.op = "executeCommand"
  /\ Len(lastOp.pre.redoStack) = 1
  /\ Len(lastOp.pre.undoStack) = 1
  /\ AppendedOne(lastOp.pre.undoStack, undoStack)
  /\ redoStack = <<>>
  /\ Top(undoStack).ref = heap

\* the instances on either stack
Live(us, rs) == Refs(us) \cup Refs(rs)

\* the entries of both stacks
Entries(us, rs) == {us[i] : i \in 1..Len(us)} \cup {rs[i] : i \in 1..Len(rs)}

\* C21: a call puts an instance on a stack that was on neither stack before
\* only if it is an executeCommand call (directly or through commands) whose
\* execute returned Success with hadEffect true or omitted; it then creates
\* exactly one, holding the kind, the instruction and the result payload of
\* that call. A failed execution, an execution with hadEffect false, an
\* undo() and a redo() leave the number of entries as it is or smaller and
\* create none, so no entry of a stack stems from such a call.
C21_CreatedOnlyByEffectfulExecute ==
  /\ lastOp.op # "init" =>
       LET created == Live(undoStack, redoStack)
                        \ Live(lastOp.pre.undoStack, lastOp.pre.redoStack)
       IN  IF lastOp.op \in {"executeCommand", "commands"}
                /\ SuccessWithEffect(HandlerResult)
             THEN /\ created = {lastOp.ref}
                  /\ Fields(Top(undoStack)) =
                       DoneCommand(lastOp.commandType, lastOp.instruction,
                                   HandlerResult.result)
             ELSE /\ created = {}
                  /\ Len(undoStack) + Len(redoStack)
                       <= Len(lastOp.pre.undoStack) + Len(lastOp.pre.redoStack)
  /\ \A command \in Entries(undoStack, redoStack) :
       command.commandType = "probe" =>
         SuccessWithEffect(command.instruction.respond)

C21_Witness ==
  /\ lastOp.op = "executeCommand"
  /\ lastOp.commandType = "probe"
  /\ ~HandlerResult.success
  /\ Len(undoStack) = 1
  /\ Len(redoStack) = 1
  /\ \E command \in Entries(undoStack, redoStack) : command.commandType = "probe"

\* C22: redo() invokes no execute function; a redo() that returns true
\* invokes the redo function of the command's handler once, with the
\* executionResult that the execute call which created the command
\* returned (lifo keeps it from that call), so that a redone
\* addRectangleWithResult is inserted at the index addedId it had been
\* given.
C22_RedoUsesCapturedResult ==
  lastOp.op = "redo" =>
    /\ \A i \in 1..Len(lastOp.calls) : lastOp.calls[i].fn # "execute"
    /\ lastOp.ret = TRUE =>
         /\ lifo.applied # <<>>
         /\ LET command == Top(lifo.applied)
            IN  /\ lastOp.calls = MoveCall("redo", command, lastOp.pre.model)
                /\ command.commandType = "addRectangleWithResult" =>
                     /\ model.rectangles =
                          Splice(lastOp.pre.model.rectangles,
                                 command.executionResult.addedId, 0,
                                 <<command.instruction.rectangleToAdd>>)
                     /\ model.rectangles[command.executionResult.addedId + 1] =
                          command.instruction.rectangleToAdd

C22_Witness ==
  /\ lastOp.op = "redo"
  /\ lastOp.ret = TRUE
  /\ Top(undoStack).commandType = "addRectangleWithResult"
  /\ Top(undoStack).executionResult = [addedId |-> 1]
  /\ Top(undoStack).instruction.rectangleToAdd = rect1
  /\ model.rectangles[2] = rect1

\* what the execution that created the instance ref was called with and
\* what its execute returned, as lifo keeps it from that call
Born(ref) ==
  CHOOSE b \in Entries(lifo.applied, lifo.undone) : b.ref = ref

\* C23: every entry of a stack holds the kind and the instruction of the
\* executeCommand call that created it and the result payload that execute
\* returned, however often it has been undone and redone, and these are the
\* kind, instruction and executionResult handed to the undo and redo
\* functions.
C23_ImmutableSnapshot ==
  /\ \A command \in Entries(undoStack, redoStack) :
       /\ \E b \in Entries(lifo.applied, lifo.undone) : b.ref = command.ref
       /\ Fields(command) = Fields(Born(command.ref))
  /\ (lastOp.op = "undo" /\ lastOp.ret = TRUE) =>
       /\ redoStack # <<>>
       /\ lastOp.calls = MoveCall("undo", Born(Top(redoStack).ref), lastOp.pre.model)
  /\ (lastOp.op = "redo" /\ lastOp.ret = TRUE) =>
       /\ undoStack # <<>>
       /\ lastOp.calls = MoveCall("redo", Born(Top(undoStack).ref), lastOp.pre.model)
  /\ Began(<<"E", "U">>) =>
       \A command \in Entries(undoStack, redoStack) :
         Fields(command) = DoneBy(trace[1])

C23_Witness ==
  /\ Did(<<"E", "U", "R", "U", "R", "U">>)
  /\ trace[1].commandType = "addRectangleWithResult"
  /\ model0 = PaintModel(<<rect2>>, <<>>)
  /\ lastOp.calls = MoveCall("undo", DoneBy(trace[1]), lastOp.pre.model)
  /\ Fields(Top(redoStack)) =
       DoneCommand("addRectangleWithResult", trace[1].instruction, [addedId |-> 1])

\* C24: a call of executeCommand, directly or through commands, with a kind
\* that is no key of the registry ends by throwing a TypeError: it returns
\* nothing, in particular no Failure, invokes no handler function, and
\* leaves the model and both stacks as they were. Every call that returns
\* was made with a registered kind.
C24_UnknownKindThrows ==
  /\ lastOp.op = "thrown" =>
       /\ lastOp.commandType \notin CommandTypes
       /\ lastOp.ret = TypeError
       /\ lastOp.calls = <<>>
       /\ Current = lastOp.pre
  /\ lastOp.op \in {"executeCommand", "commands"} =>
       lastOp.commandType \in CommandTypes

C24_Witness ==
  /\ lastOp.op = "thrown"
  /\ lastOp.surface = "executeCommand"
  /\ lastOp.commandType = "removeRectangle"
  /\ lastOp.ret = TypeError
  /\ Len(undoStack) = 1
  /\ Len(redoStack) = 1

\* C25: in every reachable state the registry the manager holds is the
\* mapping it was constructed with: no executeCommand, undo, redo or
\* commands call, returning or throwing, has added, removed or replaced an
\* entry.
C25_RegistryUnchanged ==
  /\ commandTypeRegistry = paintCommandTypeRegistry
  /\ DOMAIN commandTypeRegistry = CommandTypes

C25_Witness ==
  /\ commandTypeRegistry = paintCommandTypeRegistry
  /\ lastOp.op = "thrown"
  /\ lastOp.surface = "commands"
  /\ pruned # {}
  /\ undoStack # <<>>
  /\ redoStack # <<>>

Reverse(s) == [i \in 1..Len(s) |-> s[Len(s) + 1 - i]]

\* the undo stack bottom to top, followed by the redo stack top to bottom
Timeline(us, rs) == us \o Reverse(rs)

Replay(m, stack) ==
  LET applied[i \in 0..Len(stack)] ==
        IF i = 0 THEN m ELSE ExecutedOn(applied[i - 1], stack[i])
  IN  applied[Len(stack)]

\* C27: with the paint registry (and the probe handler, which leaves the
\* model alone), the model is in every reachable state the initial model
\* with the commands of the undo stack executed on it bottom to top; the
\* commands on the redo stack and the pruned commands contribute nothing.
C27_ModelIsReplayOfUndoStack ==
  model = Replay(model0, undoStack)

C27_Witness ==
  /\ model = Replay(model0, undoStack)
  /\ model0 = PaintModel(<<rect2>>, <<>>)
  /\ pruned # {}
  /\ KindsOf(undoStack) = <<"addRectangleWithResult">>
  /\ KindsOf(redoStack) = <<"addCircle">>
  /\ lastOp.op = "undo"
  /\ Len(model.rectangles) = 2
  /\ model.circles = <<>>

\* C28: counted from the construction of the manager, the size of the undo
\* stack is the number of executions that returned Success with effect,
\* minus the number of undo() calls that returned true, plus the number of
\* redo() calls that returned true; the size of the redo stack is at most
\* the number of undo() calls that returned true since the latest such
\* execution.
C28_StackSizes ==
  counts.on =>
    /\ Len(undoStack) = counts.executed - counts.undone + counts.redone
    /\ Len(redoStack) <= counts.undoneSince

C28_Witness ==
  /\ counts.on
  /\ counts.executed = 3
  /\ counts.undone = 3
  /\ counts.redone = 2
  /\ counts.undoneSince = 1
  /\ Len(undoStack) = 2
  /\ Len(redoStack) = 1

\* the latest call was op and returned true
ReturnedTrue(call, op) == call.op = op /\ call.ret = TRUE

\* C29: a redo() called immediately after an undo() that returned true
\* returns true, and an undo() called immediately after a redo() that
\* returned true returns true.
C29_UndoRedoAlternate ==
  [][ /\ (ReturnedTrue(lastOp, "undo") /\ lastOp'.op = "redo") =>
           lastOp'.ret = TRUE
      /\ (ReturnedTrue(lastOp, "redo") /\ lastOp'.op = "undo") =>
           lastOp'.ret = TRUE ]_vars

C29_Witness ==
  /\ Did(<<"E", "U", "R", "U">>)
  /\ trace[2].ret = TRUE
  /\ trace[3].ret = TRUE
  /\ trace[4].ret = TRUE
  /\ ReturnedTrue(lastOp, "undo")
  /\ undoStack = <<>>

\* successive undo() calls from (m, us, rs) return true once per entry of
\* us, each taking one entry off, and then false on the empty stack
RECURSIVE UndoRunsOut(_, _, _)
UndoRunsOut(m, us, rs) ==
  LET r == undo(m, us, rs)
  IN  IF us = <<>>
        THEN r.ret = FALSE /\ r.undoStack = <<>>
        ELSE /\ r.ret = TRUE
             /\ Len(r.undoStack) = Len(us) - 1
             /\ UndoRunsOut(r.model, r.undoStack, r.redoStack)

\* successive redo() calls from (m, us, rs) return true once per entry of
\* rs, each taking one entry off, and then false on the empty stack
RECURSIVE RedoRunsOut(_, _, _)
RedoRunsOut(m, us, rs) ==
  LET r == redo(m, us, rs)
  IN  IF rs = <<>>
        THEN r.ret = FALSE /\ r.redoStack = <<>>
        ELSE /\ r.ret = TRUE
             /\ Len(r.redoStack) = Len(rs) - 1
             /\ RedoRunsOut(r.model, r.undoStack, r.redoStack)

\* C30: in every reachable state, with n entries on the undo stack,
\* successive undo() calls return true n times and then false, and the undo
\* stack is empty after the n-th; with k entries on the redo stack,
\* successive redo() calls return true k times and then false, and the redo
\* stack is empty after the k-th.
C30_UndoAndRedoRunOut ==
  /\ UndoRunsOut(model, undoStack, redoStack)
  /\ RedoRunsOut(model, undoStack, redoStack)

C30_Witness ==
  /\ Len(undoStack) = 2
  /\ Len(redoStack) = 1
  /\ undo(model, undoStack, redoStack).ret = TRUE
  /\ UndoRunsOut(model, undoStack, redoStack)
  /\ RedoRunsOut(model, undoStack, redoStack)

\* C31: when the handler's execute throws, executeCommand ends with that
\* exception after the one call of execute, and both stacks are as they were
\* before the call: the redo stack is not cleared and nothing is pushed on
\* the undo stack.
C31_ExecuteThrowKeepsStacks ==
  (lastOp.op = "executeCommand" /\ lastOp.threw) =>
    /\ lastOp.ret = HandlerError
    /\ Len(lastOp.calls) = 1
    /\ lastOp.calls[1].fn = "execute"
    /\ undoStack = lastOp.pre.undoStack
    /\ redoStack = lastOp.pre.redoStack

C31_Witness ==
  /\ lastOp.op = "executeCommand"
  /\ lastOp.threw
  /\ lastOp.ret = HandlerError
  /\ lastOp.pre.undoStack # <<>>
  /\ lastOp.pre.redoStack # <<>>
  /\ redoStack = lastOp.pre.redoStack

\* the entry that the latest undo() or redo() took from its stack
Popped ==
  IF lastOp.op = "undo"
    THEN lastOp.pre.undoStack[Len(lastOp.pre.undoStack)]
    ELSE lastOp.pre.redoStack[Len(lastOp.pre.redoStack)]

\* the latest call was fn ("undo" or "redo") and its handler function threw
HandlerThrewIn(fn) == lastOp.op = fn /\ lastOp.threw

\* C32: when the handler's undo (resp. redo) throws, or the handler has no
\* redo function, undo() (resp. redo()) ends with the exception after the
\* Done Command was popped from the undo (resp. redo) stack and before it is
\* pushed on the other one: the entry is on neither stack, the other stack is
\* as it was, and the two stacks together hold one entry less.
C32_ThrowLosesPopped ==
  /\ HandlerThrewIn("undo") =>
        /\ lastOp.ret = HandlerError
        /\ undoStack = PopRest(lastOp.pre.undoStack)
        /\ redoStack = lastOp.pre.redoStack
  /\ HandlerThrewIn("redo") =>
        /\ lastOp.ret = IF Fault(Popped.instruction, "noRedo")
                          THEN TypeError ELSE HandlerError
        /\ redoStack = PopRest(lastOp.pre.redoStack)
        /\ undoStack = lastOp.pre.undoStack
  /\ (HandlerThrewIn("undo") \/ HandlerThrewIn("redo")) =>
        /\ ~OnStack(Popped.ref, undoStack)
        /\ ~OnStack(Popped.ref, redoStack)
        /\ Len(undoStack) + Len(redoStack)
             = Len(lastOp.pre.undoStack) + Len(lastOp.pre.redoStack) - 1

C32_Witness ==
  /\ HandlerThrewIn("undo")
  /\ lastOp.ret = HandlerError
  /\ Len(lastOp.pre.undoStack) = 2
  /\ Len(lastOp.pre.redoStack) = 1
  /\ Len(undoStack) + Len(redoStack) = 2

\* the property names read on the commands surface: the registered kinds and
\* names that are no key of the registry
PropertyNames == CommandTypes \cup UnknownKinds

\* C33: the commands surface has one callable entry per kind of the registry,
\* bound to that kind, and no entry for a name that is not registered:
\* reading a registered kind gives the closure over that kind, reading any
\* other name gives undefined.
C33_OneEntryPerKind ==
  \A name \in PropertyNames :
    commandsGet(name) = IF name \in DOMAIN commandTypeRegistry
                          THEN Closure(name) ELSE undefined

\* the instance that the latest call was not made on, as it is now
Bystander == This(TheOther(lastOp.manager))

\* C34: of two managers built from the same registry, a call of
\* executeCommand, undo or redo on one leaves the undo stack and the redo
\* stack of the other as they were, and with them what the other's next
\* undo() and next redo() return.
C34_IndependentHistories ==
  lastOp.op \in {"executeCommand", "undo", "redo"} =>
    /\ Bystander.undoStack = lastOp.other.undoStack
    /\ Bystander.redoStack = lastOp.other.redoStack
    /\ undo(Bystander.model, Bystander.undoStack, Bystander.redoStack).ret
         = undo(lastOp.other.model, lastOp.other.undoStack,
                lastOp.other.redoStack).ret
    /\ redo(Bystander.model, Bystander.undoStack, Bystander.redoStack).ret
         = redo(lastOp.other.model, lastOp.other.undoStack,
                lastOp.other.redoStack).ret

C34_Witness ==
  /\ lastOp.op = "undo"
  /\ lastOp.manager = 2
  /\ lastOp.ret = TRUE
  /\ manager2.undoStack = <<>>
  /\ manager2.redoStack # <<>>
  /\ undoStack # <<>>
  /\ redoStack # <<>>
  /\ undoStack = lastOp.other.undoStack
  /\ redoStack = lastOp.other.redoStack

====
